---- MODULE Spec2Model ----
(***************************************************************************)
(* Model of setup.py: build_database() of the NYC restaurant cuisine       *)
(* dashboard.  The three raw tables are loaded, then the four derived      *)
(* tables are created by the SQL statements of build_database, one action  *)
(* per statement.  Text is a sequence of one-character strings, so that    *)
(* LOWER, TRIM, regexp_matches and STRING_AGG are computed, not assumed.   *)
(* A table is a bag of rows, as in SQL: no statement of build_database     *)
(* reads the position of a row.  One row of a table is the pair <<r, n>>   *)
(* of its content r and its copy number n.                                 *)
(* SQL NULL is the empty sequence <<>>, a present value v is <<v>>.        *)
(* Where SQL leaves a result to the engine (ties of ROW_NUMBER and of      *)
(* ORDER BY ... LIMIT 1, FIRST without ORDER BY) the action may produce    *)
(* any of the results the engine may produce.                              *)
(***************************************************************************)
EXTENDS Integers, Sequences, FiniteSets, Bags

\* ---------------------------------------------------------------- bounds
MaxRows == 2
MaxStops == 2
MaxOverrides == 2

\* ------------------------------------------------------------------ text
\* The characters in ASCII order: blank, quote, slash, A-Z, a-z.
Alphabet ==
  <<" ", "'", "/",
    "A","B","C","D","E","F","G","H","I","J","K","L","M",
    "N","O","P","Q","R","S","T","U","V","W","X","Y","Z",
    "a","b","c","d","e","f","g","h","i","j","k","l","m",
    "n","o","p","q","r","s","t","u","v","w","x","y","z">>

Chars == { Alphabet[i] : i \in DOMAIN Alphabet }

RankOf == [c \in Chars |-> CHOOSE i \in DOMAIN Alphabet : Alphabet[i] = c]

Rank(c) == RankOf[c]

UpperCase == { Alphabet[i] : i \in 4..29 }

WordChars == { Alphabet[i] : i \in 4..55 }

IsUpper(c) == c \in UpperCase

IsWordChar(c) == c \in WordChars

LowerChar(c) == IF IsUpper(c) THEN Alphabet[Rank(c) + 26] ELSE c

\* SQL LOWER(s)
LOWER(s) == [i \in DOMAIN s |-> LowerChar(s[i])]

RECURSIVE LTrim(_)
LTrim(s) == IF s # <<>> /\ Head(s) = " " THEN LTrim(Tail(s)) ELSE s

RECURSIVE RTrim(_)
RTrim(s) ==
  IF s # <<>> /\ s[Len(s)] = " " THEN RTrim(SubSeq(s, 1, Len(s) - 1)) ELSE s

\* SQL TRIM(s): blanks removed at both ends
TRIM(s) == RTrim(LTrim(s))

\* lexicographic order of two texts, as ORDER BY on a VARCHAR
RECURSIVE StrLess(_, _)
StrLess(a, b) ==
  IF b = <<>> THEN FALSE
  ELSE IF a = <<>> THEN TRUE
  ELSE IF Head(a) # Head(b) THEN Rank(Head(a)) < Rank(Head(b))
  ELSE StrLess(Tail(a), Tail(b))

\* One alternative of a pattern: a literal, with or without \b on both sides.
Lit(s) == [lit |-> s, wb |-> FALSE]
Word(s) == [lit |-> s, wb |-> TRUE]

MatchesAt(s, alt, i) ==
  /\ i + Len(alt.lit) - 1 <= Len(s)
  /\ SubSeq(s, i, i + Len(alt.lit) - 1) = alt.lit
  /\ alt.wb =>
       /\ (i = 1 \/ ~IsWordChar(s[i - 1]))
       /\ (i + Len(alt.lit) - 1 = Len(s) \/ ~IsWordChar(s[i + Len(alt.lit)]))

\* regexp_matches(s, 'a|b|...'): some alternative occurs somewhere in s
regexp_matches(s, pattern) ==
  \E alt \in pattern : \E i \in 1..Len(s) : MatchesAt(s, alt, i)

\* ------------------------------------------------------- the rule table
\* Rules of CUISINES, in the order of the list (Pizza before Italian before
\* Greek/Mediterranean), each with literal alternatives of its pattern.
CUISINES ==
  << [label |-> "Pizza",
      pattern |-> { Lit(<<"p","i","z","z","a">>),
                    Lit(<<"p","i","z","z","e","r","i","a">>) }],
     [label |-> "Italian",
      pattern |-> { Lit(<<"i","t","a","l","i","a","n">>),
                    Word(<<"p","a","s","t","a">>) }],
     [label |-> "Greek/Mediterranean",
      pattern |-> { Lit(<<"g","r","e","e","k">>),
                    Lit(<<"g","y","r","o">>) }] >>

\* --------------------------------------------------------------- inputs
NULL == <<>>

NPizzaPasta == <<"P","i","z","z","a"," ","P","a","s","t","a">>
NGyro == <<"G","y","r","o">>
NDiner == <<"D","i","n","e","r">>

Row(n, a, b, p, lat, lon, d) ==
  [RestaurantName |-> n, BusinessAddress |-> a, Borough |-> b, Postcode |-> p,
   Latitude |-> lat, Longitude |-> lon, InspectedOn |-> d]

\* Rows the restaurant CSV may hold: repeated inspections of one restaurant
\* with different and with equal dates, the same name at another address,
\* and rows without a usable location (NULL or 0).
RestaurantRows ==
  { Row(NPizzaPasta, "1 Main St", "Bronx", "10451", <<1>>, <<1>>, 1),
    Row(NPizzaPasta, "1 Main St", "Queens", "11101", <<3>>, <<2>>, 2),
    Row(NPizzaPasta, "1 Main St", "Queens", "11101", <<3>>, <<2>>, 1),
    Row(NPizzaPasta, "2 Elm St", "Bronx", "10451", <<1>>, <<1>>, 1),
    Row(NGyro, "2 Elm St", "Bronx", "10451", <<1>>, <<2>>, 1),
    Row(NGyro, "2 Elm St", "Queens", "11101", <<2>>, <<0>>, 2),
    Row(NDiner, "1 Main St", "Bronx", "10451", <<2>>, <<1>>, 1),
    Row(NDiner, "1 Main St", "Bronx", "10451", NULL, <<2>>, 2) }

Stop(c, n, lat, lon, r) ==
  [ComplexID |-> c, StopName |-> n, GTFSLatitude |-> lat,
   GTFSLongitude |-> lon, DaytimeRoutes |-> r]

\* Stops the subway CSV may hold: two stops of complex 101 with different
\* names, and a complex 202 that looks like the first stop of 101.
StationStops ==
  { Stop(101, "Canal St", 0, 0, <<"A">>),
    Stop(101, "Canal St Lower", 2, 2, <<"C">>),
    Stop(202, "Canal St", 0, 0, <<"A">>) }

Override(n, c) == [restaurant_name |-> n, cuisine |-> c]

\* Lines the lookup TSV may hold; an empty second field is read as NULL.
OverrideRows ==
  { Override(<<"P","I","Z","Z","A"," ","P","A","S","T","A"," ">>, <<"Italian">>),
    Override(<<" ","p","i","z","z","a"," ","p","a","s","t","a">>, NULL) }

\* ---------------------------------------------------------------- state
VARIABLES
  raw_restaurants,           \* bag of rows
  raw_subway,                \* bag of stops
  cuisine_lookup,            \* bag of override lines
  subway_stations,           \* set of rows, one per complex
  classified_restaurants,    \* set of rows; rid is the row's identity
  restaurants_with_station,  \* set of rows; rid is the row's identity
  station_cuisine_counts,    \* set of rows
  pc,                        \* the statement build_database is at
  run,                       \* 1 for the first run, 2 for the rerun
  prev                       \* what the first run wrote, once rerun

vars ==
  <<raw_restaurants, raw_subway, cuisine_lookup, subway_stations,
    classified_restaurants, restaurants_with_station, station_cuisine_counts,
    pc, run, prev>>

inputs == <<raw_restaurants, raw_subway, cuisine_lookup>>

tables ==
  <<subway_stations, classified_restaurants, restaurants_with_station,
    station_cuisine_counts>>

NoOutput == <<>>

Init ==
  /\ raw_restaurants = EmptyBag
  /\ raw_subway = EmptyBag
  /\ cuisine_lookup = EmptyBag
  /\ subway_stations = {}
  /\ classified_restaurants = {}
  /\ restaurants_with_station = {}
  /\ station_cuisine_counts = {}
  /\ pc = "load"
  /\ run = 1
  /\ prev = NoOutput

\* ---------------------------------------------------------- load the CSVs
\* the rows of table B, each copy on its own
RowsOf(B) ==
  UNION { { <<r, n>> : n \in 1..CopiesIn(r, B) } : r \in BagToSet(B) }

LoadRestaurantRow(r) ==
  /\ pc = "load" /\ run = 1
  /\ BagCardinality(raw_restaurants) < MaxRows
  /\ raw_restaurants' = raw_restaurants (+) SetToBag({r})
  /\ UNCHANGED <<raw_subway, cuisine_lookup, tables, pc, run, prev>>

LoadSubwayRow(s) ==
  /\ pc = "load" /\ run = 1
  /\ BagCardinality(raw_subway) < MaxStops
  /\ raw_subway' = raw_subway (+) SetToBag({s})
  /\ UNCHANGED <<raw_restaurants, cuisine_lookup, tables, pc, run, prev>>

LoadLookupRow(o) ==
  /\ pc = "load" /\ run = 1
  /\ BagCardinality(cuisine_lookup) < MaxOverrides
  /\ cuisine_lookup' = cuisine_lookup (+) SetToBag({o})
  /\ UNCHANGED <<raw_restaurants, raw_subway, tables, pc, run, prev>>

\* ------------------------------------------------------------ arithmetic
RECURSIVE GCD(_, _)
GCD(a, b) == IF b = 0 THEN a ELSE GCD(b, a % b)

\* The fraction n/d in lowest terms (d > 0, n >= 0): a DOUBLE of the model.
Rat(n, d) == <<n \div GCD(n, d), d \div GCD(n, d)>>

RatLess(p, q) == p[1] * q[2] < q[1] * p[2]

RECURSIVE Sum(_, _)
Sum(f, S) ==
  IF S = {} THEN 0
  ELSE LET x == CHOOSE y \in S : TRUE IN f[x] + Sum(f, S \ {x})

\* -------------------------------------- subway_stations (GROUP BY complex)
ComplexIDs == { x[1].ComplexID : x \in RowsOf(raw_subway) }

Members(c) == { x \in RowsOf(raw_subway) : x[1].ComplexID = c }

\* AVG(CAST(col AS DOUBLE)) over the stops of complex c
AVG(col, c) ==
  Rat(Sum([x \in Members(c) |-> x[1][col]], Members(c)),
      Cardinality(Members(c)))

\* the texts of S in ascending order
RECURSIVE Sorted(_)
Sorted(S) ==
  IF S = {} THEN <<>>
  ELSE LET m == CHOOSE x \in S : \A y \in S \ {x} : StrLess(x, y)
       IN <<m>> \o Sorted(S \ {m})

RECURSIVE Join(_, _)
Join(q, sep) ==
  IF q = <<>> THEN <<>>
  ELSE IF Len(q) = 1 THEN q[1]
  ELSE q[1] \o sep \o Join(Tail(q), sep)

\* STRING_AGG(DISTINCT "Daytime Routes", ' ' ORDER BY "Daytime Routes")
STRING_AGG(c) ==
  Join(Sorted({ x[1].DaytimeRoutes : x \in Members(c) }), <<" ">>)

\* FIRST("Stop Name") has no ORDER BY: the engine may return the name of any
\* stop of the group.
FirstStopNames(c) == { x[1].StopName : x \in Members(c) }

StationRow(c, name) ==
  [complex_id |-> c, stop_name |-> name,
   latitude |-> AVG("GTFSLatitude", c), longitude |-> AVG("GTFSLongitude", c),
   all_routes |-> STRING_AGG(c)]

DedupSubwayStations ==
  /\ pc = "load"
  /\ \E first \in [ComplexIDs -> { s.StopName : s \in StationStops }] :
       /\ \A c \in ComplexIDs : first[c] \in FirstStopNames(c)
       /\ subway_stations' = { StationRow(c, first[c]) : c \in ComplexIDs }
  /\ pc' = "classify"
  /\ UNCHANGED <<inputs, classified_restaurants, restaurants_with_station,
                 station_cuisine_counts, run, prev>>

\* ------------------------- classified_restaurants (dedup, join, COALESCE)
\* WHERE Latitude IS NOT NULL AND Longitude IS NOT NULL AND both != 0
HasLocation(r) ==
  /\ r.Latitude # NULL
  /\ r.Longitude # NULL
  /\ r.Latitude[1] # 0
  /\ r.Longitude[1] # 0

Filtered == { x \in RowsOf(raw_restaurants) : HasLocation(x[1]) }

\* PARTITION BY RestaurantName, BusinessAddress
Partition(x) ==
  { y \in Filtered :
      /\ y[1].RestaurantName = x[1].RestaurantName
      /\ y[1].BusinessAddress = x[1].BusinessAddress }

\* ORDER BY InspectedOn without DESC: the oldest row first
BeforeAscending(y, x) == y[1].InspectedOn < x[1].InspectedOn

\* ORDER BY InspectedOn DESC: y is sorted before x
Before(y, x) == y[1].InspectedOn > x[1].InspectedOn

\* The rows that may get rn = 1: no row of the partition is sorted before.
\* Rows with equal InspectedOn are peers, and the engine numbers them in any
\* order.
MayBeFirst(x) == \A y \in Partition(x) : ~Before(y, x)

Partitions == { Partition(x) : x \in Filtered }

\* LEFT JOIN cuisine_lookup cl ON LOWER(TRIM(d.name)) = LOWER(TRIM(cl.name))
JoinOn(d, cl) == LOWER(TRIM(d.RestaurantName)) = LOWER(TRIM(cl.restaurant_name))

\* the lookup lines joined to row d; <<>> stands for the NULL-extended row
Joined(d) ==
  LET m == { cl \in RowsOf(cuisine_lookup) : JoinOn(d, cl[1]) }
  IN IF m = {} THEN {<<>>} ELSE m

\* CASE WHEN regexp_matches(LOWER(name), pattern) THEN label ... ELSE NULL END
RECURSIVE CaseFrom(_, _)
CaseFrom(name, k) ==
  IF k > Len(CUISINES) THEN NULL
  ELSE IF regexp_matches(LOWER(name), CUISINES[k].pattern)
       THEN <<CUISINES[k].label>>
       ELSE CaseFrom(name, k + 1)

\* the rule list scanned from its end: the last matching rule wins
RECURSIVE CaseDownFrom(_, _)
CaseDownFrom(name, k) ==
  IF k < 1 THEN NULL
  ELSE IF regexp_matches(LOWER(name), CUISINES[k].pattern)
       THEN <<CUISINES[k].label>>
       ELSE CaseDownFrom(name, k - 1)

CuisineCaseLastMatch(name) == CaseDownFrom(name, Len(CUISINES))

CuisineCase(name) == CaseFrom(name, 1)

\* COALESCE with the rule cascade put before the lookup label
CoalesceRuleFirst(a, b, c) == IF b # NULL THEN b ELSE IF a # NULL THEN a ELSE c

COALESCE(a, b, c) == IF a # NULL THEN a ELSE IF b # NULL THEN b ELSE c

ClCuisine(cl) == IF cl = <<>> THEN NULL ELSE cl[1].cuisine

ClassifiedRow(x, cl) ==
  LET d == x[1] IN
  [restaurant_name |-> d.RestaurantName,
   address |-> d.BusinessAddress,
   borough |-> d.Borough,
   postcode |-> d.Postcode,
   latitude |-> d.Latitude[1],
   longitude |-> d.Longitude[1],
   cuisine |-> COALESCE(ClCuisine(cl), CuisineCase(d.RestaurantName),
                        <<"Unclassified">>)[1],
   rid |-> <<x, cl>>]

ClassifyRestaurants ==
  /\ pc = "classify"
  /\ \E rn1 \in [Partitions -> RowsOf(raw_restaurants)] :
       /\ \A g \in Partitions : rn1[g] \in g /\ MayBeFirst(rn1[g])
       /\ classified_restaurants' =
            UNION { { ClassifiedRow(rn1[g], cl) : cl \in Joined(rn1[g][1]) } :
                    g \in Partitions }
  /\ pc' = "stats"
  /\ UNCHANGED <<inputs, subway_stations, restaurants_with_station,
                 station_cuisine_counts, run, prev>>

\* classified*100//total in the progress line: ZeroDivisionError if total = 0
PrintClassifiedStats ==
  /\ pc = "stats"
  /\ pc' = IF Cardinality(classified_restaurants) = 0 THEN "aborted"
           ELSE "nearest"
  /\ UNCHANGED <<inputs, tables, run, prev>>

\* ------------------------- restaurants_with_station (LATERAL ... LIMIT 1)
\* the distance without its longitude term
Dist2LatitudeOnly(r, s) ==
  LET a == r.latitude * s.latitude[2] - s.latitude[1]
  IN <<a * a, s.latitude[2] * s.latitude[2]>>

\* (r.latitude - latitude)^2 + (r.longitude - longitude)^2 as a fraction
Dist2(r, s) ==
  LET a == r.latitude * s.latitude[2] - s.latitude[1]
      b == r.longitude * s.longitude[2] - s.longitude[1]
      dlat == s.latitude[2] * s.latitude[2]
      dlon == s.longitude[2] * s.longitude[2]
  IN <<a * a * dlon + b * b * dlat, dlat * dlon>>

\* The rows ORDER BY distance LIMIT 1 may return: no row is sorted before.
\* Stations at equal distance are peers, and the engine returns any of them.
MayBeNearest(r) ==
  { s \in subway_stations :
      \A t \in subway_stations : ~RatLess(Dist2(r, t), Dist2(r, s)) }

\* complex_id is selected by the LATERAL subquery and not kept by the table;
\* the model keeps it next to rid to tell which complex a row came from.
AssignedRow(r, s) ==
  [restaurant_name |-> r.restaurant_name,
   address |-> r.address,
   borough |-> r.borough,
   postcode |-> r.postcode,
   latitude |-> r.latitude,
   longitude |-> r.longitude,
   cuisine |-> r.cuisine,
   station_name |-> s.stop_name,
   station_lat |-> s.latitude,
   station_lon |-> s.longitude,
   station_routes |-> s.all_routes,
   rid |-> r.rid,
   complex_id |-> s.complex_id]

\* A restaurant for which the LATERAL subquery returns no row is in no row
\* of the cross product.
NearestStation ==
  /\ pc = "nearest"
  /\ \E s \in [{ r \in classified_restaurants : MayBeNearest(r) # {} }
                 -> subway_stations] :
       /\ \A r \in DOMAIN s : s[r] \in MayBeNearest(r)
       /\ restaurants_with_station' = { AssignedRow(r, s[r]) : r \in DOMAIN s }
  /\ pc' = "counts"
  /\ UNCHANGED <<inputs, subway_stations, classified_restaurants,
                 station_cuisine_counts, run, prev>>

\* ------------------------------------ station_cuisine_counts (GROUP BY)
\* GROUP BY station_name, station_lat, station_lon, station_routes, cuisine
GroupKey(a) ==
  [station_name |-> a.station_name, station_lat |-> a.station_lat,
   station_lon |-> a.station_lon, station_routes |-> a.station_routes,
   cuisine |-> a.cuisine]

\* COUNT(DISTINCT restaurant_name) of the group of key k
CountDistinctNames(k) ==
  Cardinality({ a.restaurant_name :
                  a \in { b \in restaurants_with_station : GroupKey(b) = k } })

\* COUNT(*) of the group of key k
CountStar(k) ==
  Cardinality({ a \in restaurants_with_station : GroupKey(a) = k })

CountRow(k) ==
  [station_name |-> k.station_name, station_lat |-> k.station_lat,
   station_lon |-> k.station_lon, station_routes |-> k.station_routes,
   cuisine |-> k.cuisine, restaurant_count |-> CountStar(k)]

StationCuisineCounts ==
  /\ pc = "counts"
  /\ station_cuisine_counts' =
       { CountRow(k) : k \in { GroupKey(a) : a \in restaurants_with_station } }
  /\ pc' = "done"
  /\ UNCHANGED <<inputs, subway_stations, classified_restaurants,
                 restaurants_with_station, run, prev>>

\* ------------------------------------------------------------ a second run
\* The rows of a table as the database file holds them: without the model's
\* row identities, each with the number of times it occurs.
Stored(row) ==
  [f \in DOMAIN row \ {"rid", "complex_id"} |-> row[f]]

Contents(T) ==
  [v \in { Stored(x) : x \in T } |->
     Cardinality({ x \in T : Stored(x) = v })]

Written ==
  [subway_stations |-> Contents(subway_stations),
   classified_restaurants |-> Contents(classified_restaurants),
   restaurants_with_station |-> Contents(restaurants_with_station),
   station_cuisine_counts |-> Contents(station_cuisine_counts)]

\* build_database is run again on the same files: the database file is
\* removed and every table is rebuilt.
Rerun ==
  /\ pc = "done" /\ run = 1
  /\ prev' = Written
  /\ run' = 2
  /\ pc' = "load"
  /\ subway_stations' = {}
  /\ classified_restaurants' = {}
  /\ restaurants_with_station' = {}
  /\ station_cuisine_counts' = {}
  /\ UNCHANGED inputs

\* one run of build_database
Next ==
  \/ \E r \in RestaurantRows : LoadRestaurantRow(r)
  \/ \E s \in StationStops : LoadSubwayRow(s)
  \/ \E o \in OverrideRows : LoadLookupRow(o)
  \/ DedupSubwayStations
  \/ ClassifyRestaurants
  \/ PrintClassifiedStats
  \/ NearestStation
  \/ StationCuisineCounts

Spec == Init /\ [][Next]_vars

\* two runs of build_database on the same files
NextTwice == Next \/ Rerun

SpecTwice == Init /\ [][NextTwice]_vars

\* =================================================================== claims
Classified == pc \in {"stats", "nearest", "counts", "done", "aborted"}

SameRestaurant(a, b) ==
  a.restaurant_name = b.restaurant_name /\ a.address = b.address

\* C1: no two records of classified_restaurants share the same (restaurant
\* name, address) pair, also when several override entries have the
\* restaurant's name after lower-casing and trimming.
C1_DedupUniqueness ==
  \A a, b \in classified_restaurants : SameRestaurant(a, b) => a = b

\* the squared planar distance from (x, y) to a station at (lat, lon), both
\* fractions, brought to the common denominator lat[2]^2 * lon[2]^2
SqDist(x, y, lat, lon) ==
  (x * lat[2] - lat[1]) * (x * lat[2] - lat[1]) * lon[2] * lon[2]
  + (y * lon[2] - lon[1]) * (y * lon[2] - lon[1]) * lat[2] * lat[2]

StrictlyCloser(t, a) ==
  SqDist(a.latitude, a.longitude, t.latitude, t.longitude)
      * a.station_lat[2] * a.station_lat[2] * a.station_lon[2] * a.station_lon[2]
  < SqDist(a.latitude, a.longitude, a.station_lat, a.station_lon)
      * t.latitude[2] * t.latitude[2] * t.longitude[2] * t.longitude[2]

\* C2: for every row of restaurants_with_station, no station complex of
\* subway_stations is strictly closer to the restaurant, by squared planar
\* distance, than the station the row carries.
C2_ExactNearest ==
  \A a \in restaurants_with_station :
    \A t \in subway_stations : ~StrictlyCloser(t, a)

\* a row was assigned its station although another complex is farther away
C2_Witness ==
  /\ pc = "done"
  /\ \E a \in restaurants_with_station : \E t \in subway_stations :
       /\ t.complex_id # a.complex_id
       /\ \E u \in subway_stations :
            u.complex_id = a.complex_id /\ StrictlyCloser(u, AssignedRow(a, t))

OverrideMatches(rec, cl) ==
  LOWER(TRIM(rec.restaurant_name)) = LOWER(TRIM(cl[1].restaurant_name))

MatchingRules(rec) ==
  { i \in DOMAIN CUISINES :
      regexp_matches(LOWER(rec.restaurant_name), CUISINES[i].pattern) }

\* the label of the first matching rule, or the fallback label
CascadeLabels(rec) ==
  IF MatchingRules(rec) = {} THEN {"Unclassified"}
  ELSE { CUISINES[i].label :
           i \in { j \in MatchingRules(rec) :
                     \A m \in MatchingRules(rec) : j <= m } }

\* C3 as claimed: a record emitted for a restaurant and an override entry of
\* the same lower-cased, trimmed name carries that entry's label, also when
\* the entry's label is empty.
C3_OverridePrecedence ==
  \A rec \in classified_restaurants : \A cl \in RowsOf(cuisine_lookup) :
    rec.rid[2] = cl => <<rec.cuisine>> = cl[1].cuisine

\* C3 as amended: for every override entry with a non-empty label whose
\* lower-cased, trimmed name is the restaurant's, a record of the restaurant
\* is emitted with that label, whatever the rule cascade matches; the record
\* emitted for an entry with an empty label carries the label of the rule
\* cascade, or "Unclassified".
C3_OverridePrecedenceNonEmpty ==
  Classified =>
    /\ \A rec \in classified_restaurants : \A cl \in RowsOf(cuisine_lookup) :
         (OverrideMatches(rec, cl) /\ cl[1].cuisine # NULL) =>
           /\ \E other \in classified_restaurants :
                /\ SameRestaurant(other, rec)
                /\ other.cuisine = cl[1].cuisine[1]
           /\ rec.rid[2] = cl => rec.cuisine = cl[1].cuisine[1]
    /\ \A rec \in classified_restaurants :
         (rec.rid[2] # <<>> /\ rec.rid[2][1].cuisine = NULL) =>
           rec.cuisine \in CascadeLabels(rec)

\* an override label was emitted for a name a rule of the cascade matches
C3_Witness ==
  /\ pc = "done"
  /\ \E rec \in classified_restaurants : \E cl \in RowsOf(cuisine_lookup) :
       /\ OverrideMatches(rec, cl)
       /\ cl[1].cuisine = <<rec.cuisine>>
       /\ \E i \in DOMAIN CUISINES :
            /\ regexp_matches(LOWER(rec.restaurant_name), CUISINES[i].pattern)
            /\ CUISINES[i].label # rec.cuisine

NoOverride(rec) ==
  \A cl \in RowsOf(cuisine_lookup) : ~OverrideMatches(rec, cl)

\* C4: a restaurant without override entry gets the label of the matching
\* rule with the smallest position in CUISINES, and "Unclassified" if no rule
\* matches.
C4_FirstMatchWins ==
  \A rec \in classified_restaurants :
    NoOverride(rec) =>
      IF MatchingRules(rec) = {} THEN rec.cuisine = "Unclassified"
      ELSE \E i \in MatchingRules(rec) :
             /\ \A j \in MatchingRules(rec) : i <= j
             /\ rec.cuisine = CUISINES[i].label

\* a name that two rules match and a name that no rule matches were both
\* classified without override
C4_Witness ==
  /\ pc = "done"
  /\ \E rec \in classified_restaurants :
       NoOverride(rec) /\ Cardinality(MatchingRules(rec)) >= 2
  /\ \E rec \in classified_restaurants :
       NoOverride(rec) /\ MatchingRules(rec) = {}

Unusable(r) ==
  r.Latitude \in {NULL, <<0>>} \/ r.Longitude \in {NULL, <<0>>}

\* the rows of the CSV with a usable location and the record's name, address
UsableRowsOf(rec) ==
  { r \in BagToSet(raw_restaurants) :
      /\ r.RestaurantName = rec.restaurant_name
      /\ r.BusinessAddress = rec.address
      /\ ~Unusable(r) }

CarriesRow(rec, r) ==
  /\ rec.borough = r.Borough
  /\ rec.postcode = r.Postcode
  /\ <<rec.latitude>> = r.Latitude
  /\ <<rec.longitude>> = r.Longitude

\* C5: every record kept for a (name, address) group carries the borough,
\* postcode, latitude and longitude of a row of the group whose inspection
\* date is the maximum of the group, and every group keeps a record.
C5_RecencySelection ==
  Classified =>
    /\ \A rec \in classified_restaurants :
         \E r \in UsableRowsOf(rec) :
           /\ CarriesRow(rec, r)
           /\ \A q \in UsableRowsOf(rec) : q.InspectedOn <= r.InspectedOn
    /\ \A r \in BagToSet(raw_restaurants) :
         ~Unusable(r) =>
           \E rec \in classified_restaurants : r \in UsableRowsOf(rec)

\* a group of two rows with different dates and attributes was deduplicated
C5_Witness ==
  /\ pc = "done"
  /\ \E rec \in classified_restaurants : \E r, q \in UsableRowsOf(rec) :
       /\ r.InspectedOn < q.InspectedOn
       /\ r.Borough # q.Borough
       /\ CarriesRow(rec, q)

\* C6: with no station complex and at least one classified restaurant the
\* run does not complete: it never reaches its end with restaurants that
\* have no assignment.
C6_EmptyStationSetAborts ==
  pc = "done" => ~(subway_stations = {} /\ classified_restaurants # {})

\* C7: rows whose latitude or longitude is absent or 0 are in no derived
\* table, and the run never aborts, also when the filter drops every row.
C7_FilterNeverAborts ==
  /\ \A rec \in classified_restaurants \cup restaurants_with_station :
       rec.latitude # 0 /\ rec.longitude # 0
  /\ (\E r \in BagToSet(raw_restaurants) : Unusable(r)) => pc # "aborted"

\* C8: the rerun on the same files writes the same four tables as the first
\* run.
C8_Idempotent ==
  (run = 2 /\ pc = "done") => Written = prev

\* C9: the restaurant_count values of station_cuisine_counts add up to the
\* number of rows of restaurants_with_station.
C9_AggregationConservation ==
  pc = "done" =>
    Sum([x \in station_cuisine_counts |-> x.restaurant_count],
        station_cuisine_counts)
    = Cardinality(restaurants_with_station)

\* several assignments were counted, two of them in one row
C9_Witness ==
  /\ pc = "done"
  /\ Cardinality(restaurants_with_station) >= 2
  /\ \E x \in station_cuisine_counts : x.restaurant_count >= 2

\* the row of station_cuisine_counts that counts assignment a
CountedIn(a) ==
  { x \in station_cuisine_counts :
      /\ x.station_name = a.station_name
      /\ x.station_lat = a.station_lat
      /\ x.station_lon = a.station_lon
      /\ x.station_routes = a.station_routes
      /\ x.cuisine = a.cuisine }

\* C10: two assignments are counted in the same row of station_cuisine_counts
\* if and only if they have the same station complex and the same cuisine.
C10_KeyIsStationIdentity ==
  pc = "done" =>
    \A a, b \in restaurants_with_station :
      (CountedIn(a) = CountedIn(b))
        <=> (a.complex_id = b.complex_id /\ a.cuisine = b.cuisine)

====
